---------------------------- MODULE Spec2Model ----------------------------
(***************************************************************************)
(* A model of chess_puzzle.py (CSM090 Principles of Programming,           *)
(* Coursework Final): the King/Bishop rules engine, the check, checkmate   *)
(* and stalemate oracles, the Black move selector and the game loop of     *)
(* main().                                                                 *)
(*                                                                         *)
(* A Python Board is the tuple (size, list of Piece); here it is the       *)
(* record [size, pieces] with pieces a sequence.  Python compares Piece    *)
(* objects by identity (the classes define no __eq__), so a piece of a     *)
(* board is named by its index in board.pieces.  A Python call either      *)
(* returns a value or raises: Return(v) and Raise(e) are the two outcomes. *)
(***************************************************************************)
EXTENDS Integers, Sequences, FiniteSets

(***************************************************************************)
(* Bounds of the model.                                                    *)
(***************************************************************************)
\* The size N of the boards explored (B[0] in the source).
BoardSize == 3
\* The largest number of pieces on a board the functions are applied to.
MaxPieces == 3

White == TRUE
Black == FALSE

Return(v) == [raised |-> FALSE, value |-> v]
Raise(e) == [raised |-> TRUE, value |-> e]

abs(n) == IF n < 0 THEN -n ELSE n
max(a, b) == IF a >= b THEN a ELSE b

(***************************************************************************)
(* Strings are sequences of code points, so ord and chr cost nothing and   *)
(* str.lower, str.upper, int and str are computed on the code points.      *)
(***************************************************************************)
lower(c) == IF 65 <= c /\ c <= 90 THEN c + 32 ELSE c
upper(c) == IF 97 <= c /\ c <= 122 THEN c - 32 ELSE c
IsDigit(c) == 48 <= c /\ c <= 57

\* The value of a non-empty sequence of decimal digits.
RECURSIVE digits_value(_)
digits_value(s) ==
    IF s = <<>> THEN 0
    ELSE 10 * digits_value(SubSeq(s, 1, Len(s) - 1)) + (s[Len(s)] - 48)

\* str.strip and int drop the white space at both ends of a string.
IsSpace(c) == c \in {9, 10, 11, 12, 13, 28, 29, 30, 31, 32, 133, 160}

RECURSIVE lstrip(_)
lstrip(s) == IF s # <<>> /\ IsSpace(s[1]) THEN lstrip(Tail(s)) ELSE s

RECURSIVE rstrip(_)
rstrip(s) ==
    IF s # <<>> /\ IsSpace(s[Len(s)]) THEN rstrip(SubSeq(s, 1, Len(s) - 1)) ELSE s

strip(s) == rstrip(lstrip(s))

\* int(s) of a string of ASCII characters: white space at both ends, an
\* optional sign, then decimal digits with single underscores allowed
\* between them; ValueError otherwise.
int(s) ==
    LET t == strip(s)
        signed == t # <<>> /\ t[1] \in {43, 45}
        body == IF signed THEN Tail(t) ELSE t
        wellformed ==
            /\ body # <<>>
            /\ \A k \in 1..Len(body) : IsDigit(body[k]) \/ body[k] = 95
            /\ IsDigit(body[1]) /\ IsDigit(body[Len(body)])
            /\ \A k \in 1..(Len(body) - 1) : ~(body[k] = 95 /\ body[k + 1] = 95)
        n == digits_value(SelectSeq(body, IsDigit))
    IN  IF ~wellformed
        THEN Raise("ValueError")
        ELSE Return(IF signed /\ t[1] = 45 THEN -n ELSE n)

\* str(n) of an integer.
RECURSIVE nat_str(_)
nat_str(n) == IF n < 10 THEN <<48 + n>> ELSE Append(nat_str(n \div 10), 48 + (n % 10))
str(n) == IF n < 0 THEN <<45>> \o nat_str(-n) ELSE nat_str(n)

\* location2index without .lower() (line 7).
location2index_case_sensitive(loc) ==
    IF loc = <<>>
    THEN Raise("IndexError")
    ELSE LET x == loc[1] - 97 + 1
             y == int(Tail(loc))
         IN  IF y.raised THEN y ELSE Return(<<x, y.value>>)

\* loc[0] raises IndexError on the empty string.
location2index(loc) ==
    IF loc = <<>>
    THEN Raise("IndexError")
    ELSE LET x == lower(loc[1]) - 97 + 1
             y == int(Tail(loc))
         IN  IF y.raised THEN y ELSE Return(<<x, y.value>>)

\* chr raises ValueError on a negative code point.
index2location(x, y) ==
    IF x + 97 - 1 < 0
    THEN Raise("ValueError")
    ELSE Return(<<x + 97 - 1>> \o str(y))

\* class Piece and its subclasses: the fields set by __init__, and the class.
Piece(k, s, X, Y) == [kind |-> k, side |-> s, pos_x |-> X, pos_y |-> Y]
Bishop(X, Y, s) == Piece("Bishop", s, X, Y)
King(X, Y, s) == Piece("King", s, X, Y)

\* Board = tuple[int, list[Piece]]
Board(n, ps) == [size |-> n, pieces |-> ps]

\* list.remove / the list comprehension "if piece != self": the sequence s
\* without its element at index i.
RemoveAt(s, i) == [k \in 1..(Len(s) - 1) |-> IF k < i THEN s[k] ELSE s[k + 1]]

(***************************************************************************)
(* Board primitives.                                                       *)
(***************************************************************************)
is_piece_at(pos_X, pos_Y, B) ==
    \E k \in 1..Len(B.pieces) :
        B.pieces[k].pos_x = pos_X /\ B.pieces[k].pos_y = pos_Y

\* piece_at returns the FIRST piece of B[1] on the square (its index here),
\* and raises ValueError when there is none.
piece_at(pos_X, pos_Y, B) ==
    IF is_piece_at(pos_X, pos_Y, B)
    THEN Return(CHOOSE k \in 1..Len(B.pieces) :
                  /\ B.pieces[k].pos_x = pos_X /\ B.pieces[k].pos_y = pos_Y
                  /\ \A j \in 1..(k - 1) :
                        ~(B.pieces[j].pos_x = pos_X /\ B.pieces[j].pos_y = pos_Y))
    ELSE Raise("ValueError")

(***************************************************************************)
(* Bishop.                                                                 *)
(***************************************************************************)
\* The while loop of lines 83-87 visits the squares self + k*step for
\* k = 1 .. dx-1 and returns False at the first occupied one.
\* Bishop.can_reach with a loop that also tests the destination square.
Bishop_can_reach_free_target(self, pos_X, pos_Y, B) ==
    LET me == B.pieces[self]
        dx == abs(me.pos_x - pos_X)
        dy == abs(me.pos_y - pos_Y)
        step_x == IF pos_X > me.pos_x THEN 1 ELSE -1
        step_y == IF pos_Y > me.pos_y THEN 1 ELSE -1
    IN  IF ~(1 <= pos_X /\ pos_X <= B.size /\ 1 <= pos_Y /\ pos_Y <= B.size)
        THEN FALSE
        ELSE IF me.pos_x = pos_X /\ me.pos_y = pos_Y
        THEN FALSE
        ELSE IF dx # dy
        THEN FALSE
        ELSE \A k \in 1..dx :
                ~is_piece_at(me.pos_x + k * step_x, me.pos_y + k * step_y, B)

\* Bishop.can_reach that reaches the next square of a diagonal only.
Bishop_can_reach_one_step(self, pos_X, pos_Y, B) ==
    LET me == B.pieces[self]
        dx == abs(me.pos_x - pos_X)
        dy == abs(me.pos_y - pos_Y)
    IN  IF ~(1 <= pos_X /\ pos_X <= B.size /\ 1 <= pos_Y /\ pos_Y <= B.size)
        THEN FALSE
        ELSE dx = 1 /\ dy = 1

Bishop_can_reach(self, pos_X, pos_Y, B) ==
    LET me == B.pieces[self]
        dx == abs(me.pos_x - pos_X)
        dy == abs(me.pos_y - pos_Y)
        step_x == IF pos_X > me.pos_x THEN 1 ELSE -1
        step_y == IF pos_Y > me.pos_y THEN 1 ELSE -1
    IN  IF ~(1 <= pos_X /\ pos_X <= B.size /\ 1 <= pos_Y /\ pos_Y <= B.size)
        THEN FALSE
        ELSE IF me.pos_x = pos_X /\ me.pos_y = pos_Y
        THEN FALSE
        ELSE IF dx # dy
        THEN FALSE
        ELSE \A k \in 1..(dx - 1) :
                ~is_piece_at(me.pos_x + k * step_x, me.pos_y + k * step_y, B)

(***************************************************************************)
(* King.                                                                   *)
(***************************************************************************)
King_can_reach(self, pos_X, pos_Y, B) ==
    LET me == B.pieces[self]
        dx == abs(me.pos_x - pos_X)
        dy == abs(me.pos_y - pos_Y)
    IN  dx <= 1 /\ dy <= 1

\* piece.can_reach(...): dispatch on the class of the piece.
can_reach(self, pos_X, pos_Y, B) ==
    IF B.pieces[self].kind = "King"
    THEN King_can_reach(self, pos_X, pos_Y, B)
    ELSE Bishop_can_reach(self, pos_X, pos_Y, B)

\* The body shared by Bishop.move_to (lines 127-132) and King.move_to
\* (lines 175-180), which differ only in the class cls of the piece they
\* append.  new_pieces.remove(target_piece) raises ValueError when the piece
\* found on the destination is the mover itself, which the comprehension has
\* already dropped.
\* move_to without the removal of the captured piece (lines 128-130).
apply_move_no_capture(cls, self, pos_X, pos_Y, B) ==
    Return(Board(B.size,
                 Append(RemoveAt(B.pieces, self),
                        Piece(cls, B.pieces[self].side, pos_X, pos_Y))))

\* move_to that removes the piece on the destination only when it belongs
\* to the other side.
apply_move_capture_enemy_only(cls, self, pos_X, pos_Y, B) ==
    LET new_pieces == RemoveAt(B.pieces, self)
        moved == Piece(cls, B.pieces[self].side, pos_X, pos_Y)
    IN  IF is_piece_at(pos_X, pos_Y, B)
        THEN LET target_piece == piece_at(pos_X, pos_Y, B).value
             IN  IF target_piece = self
                 THEN Raise("ValueError")
                 ELSE IF B.pieces[target_piece].side = B.pieces[self].side
                 THEN Return(Board(B.size, Append(new_pieces, moved)))
                 ELSE Return(Board(B.size,
                        Append(RemoveAt(new_pieces,
                                 IF target_piece < self THEN target_piece
                                                        ELSE target_piece - 1),
                               moved)))
        ELSE Return(Board(B.size, Append(new_pieces, moved)))

apply_move(cls, self, pos_X, pos_Y, B) ==
    LET new_pieces == RemoveAt(B.pieces, self)
        moved == Piece(cls, B.pieces[self].side, pos_X, pos_Y)
    IN  IF is_piece_at(pos_X, pos_Y, B)
        THEN LET target_piece == piece_at(pos_X, pos_Y, B).value
             IN  IF target_piece = self
                 THEN Raise("ValueError")
                 ELSE Return(Board(B.size,
                        Append(RemoveAt(new_pieces,
                                 IF target_piece < self THEN target_piece
                                                        ELSE target_piece - 1),
                               moved)))
        ELSE Return(Board(B.size, Append(new_pieces, moved)))

Bishop_move_to(self, pos_X, pos_Y, B) == apply_move("Bishop", self, pos_X, pos_Y, B)

King_move_to(self, pos_X, pos_Y, B) == apply_move("King", self, pos_X, pos_Y, B)

\* piece.move_to(...): dispatch on the class of the piece.
move_to(self, pos_X, pos_Y, B) ==
    IF B.pieces[self].kind = "King"
    THEN King_move_to(self, pos_X, pos_Y, B)
    ELSE Bishop_move_to(self, pos_X, pos_Y, B)

(***************************************************************************)
(* The check oracle.                                                       *)
(***************************************************************************)
\* is_check without "piece.side != side" (line 196).
is_check_any_side(side, B) ==
    LET kings == {k \in 1..Len(B.pieces) :
                    B.pieces[k].kind = "King" /\ B.pieces[k].side = side}
    IN  IF kings = {}
        THEN Raise("ValueError")
        ELSE LET king == B.pieces[CHOOSE k \in kings : \A j \in kings : k <= j]
             IN  Return(\E p \in 1..Len(B.pieces) :
                           can_reach(p, king.pos_x, king.pos_y, B))

\* is_check that answers False when the side has no king.
is_check_no_king_false(side, B) ==
    LET kings == {k \in 1..Len(B.pieces) :
                    B.pieces[k].kind = "King" /\ B.pieces[k].side = side}
    IN  IF kings = {}
        THEN Return(FALSE)
        ELSE LET king == B.pieces[CHOOSE k \in kings : \A j \in kings : k <= j]
             IN  Return(\E p \in 1..Len(B.pieces) :
                           /\ B.pieces[p].side # side
                           /\ can_reach(p, king.pos_x, king.pos_y, B))

is_check(side, B) ==
    LET kings == {k \in 1..Len(B.pieces) :
                    B.pieces[k].kind = "King" /\ B.pieces[k].side = side}
    IN  IF kings = {}
        THEN Raise("ValueError")
        ELSE LET king == B.pieces[CHOOSE k \in kings : \A j \in kings : k <= j]
             IN  Return(\E p \in 1..Len(B.pieces) :
                           /\ B.pieces[p].side # side
                           /\ can_reach(p, king.pos_x, king.pos_y, B))

(***************************************************************************)
(* Full legality of a move.  is_check raises when the simulated board has  *)
(* no king of the mover's side, and the exception leaves can_move_to.      *)
(***************************************************************************)
\* Bishop.can_move_to without its last test (lines 116-118).
Bishop_can_move_to_unchecked(self, pos_X, pos_Y, B) ==
    IF ~Bishop_can_reach(self, pos_X, pos_Y, B)
    THEN Return(FALSE)
    ELSE IF /\ is_piece_at(pos_X, pos_Y, B)
            /\ B.pieces[piece_at(pos_X, pos_Y, B).value].side = B.pieces[self].side
    THEN Return(FALSE)
    ELSE Return(TRUE)

Bishop_can_move_to(self, pos_X, pos_Y, B) ==
    IF ~Bishop_can_reach(self, pos_X, pos_Y, B)
    THEN Return(FALSE)
    ELSE IF /\ is_piece_at(pos_X, pos_Y, B)
            /\ B.pieces[piece_at(pos_X, pos_Y, B).value].side = B.pieces[self].side
    THEN Return(FALSE)
    ELSE LET temp_board == Bishop_move_to(self, pos_X, pos_Y, B)
         IN  IF temp_board.raised
             THEN temp_board
             ELSE LET chk == is_check(B.pieces[self].side, temp_board.value)
                  IN  IF chk.raised THEN chk
                      ELSE IF chk.value THEN Return(FALSE)
                      ELSE Return(TRUE)

\* King.can_move_to without the test of the captured piece's side (lines
\* 159-162).
King_can_move_to_any_capture(self, pos_X, pos_Y, B) ==
    LET me == B.pieces[self]
        dx == abs(me.pos_x - pos_X)
        dy == abs(me.pos_y - pos_Y)
    IN  IF ~(1 <= pos_X /\ pos_X <= B.size /\ 1 <= pos_Y /\ pos_Y <= B.size)
        THEN Return(FALSE)
        ELSE IF me.pos_x = pos_X /\ me.pos_y = pos_Y
        THEN Return(FALSE)
        ELSE IF max(dx, dy) > 1
        THEN Return(FALSE)
        ELSE LET temp_board == King_move_to(self, pos_X, pos_Y, B)
             IN  IF temp_board.raised
                 THEN temp_board
                 ELSE LET chk == is_check(me.side, temp_board.value)
                      IN  IF chk.raised THEN chk
                          ELSE IF chk.value THEN Return(FALSE)
                          ELSE Return(TRUE)

\* King.can_move_to without its last test (lines 164-166).
King_can_move_to_unchecked(self, pos_X, pos_Y, B) ==
    LET me == B.pieces[self]
        dx == abs(me.pos_x - pos_X)
        dy == abs(me.pos_y - pos_Y)
    IN  IF ~(1 <= pos_X /\ pos_X <= B.size /\ 1 <= pos_Y /\ pos_Y <= B.size)
        THEN Return(FALSE)
        ELSE IF me.pos_x = pos_X /\ me.pos_y = pos_Y
        THEN Return(FALSE)
        ELSE IF max(dx, dy) > 1
        THEN Return(FALSE)
        ELSE IF /\ is_piece_at(pos_X, pos_Y, B)
                /\ B.pieces[piece_at(pos_X, pos_Y, B).value].side = me.side
        THEN Return(FALSE)
        ELSE Return(TRUE)

King_can_move_to(self, pos_X, pos_Y, B) ==
    LET me == B.pieces[self]
        dx == abs(me.pos_x - pos_X)
        dy == abs(me.pos_y - pos_Y)
    IN  IF ~(1 <= pos_X /\ pos_X <= B.size /\ 1 <= pos_Y /\ pos_Y <= B.size)
        THEN Return(FALSE)
        ELSE IF me.pos_x = pos_X /\ me.pos_y = pos_Y
        THEN Return(FALSE)
        ELSE IF max(dx, dy) > 1
        THEN Return(FALSE)
        ELSE IF /\ is_piece_at(pos_X, pos_Y, B)
                /\ B.pieces[piece_at(pos_X, pos_Y, B).value].side = me.side
        THEN Return(FALSE)
        ELSE LET temp_board == King_move_to(self, pos_X, pos_Y, B)
             IN  IF temp_board.raised
                 THEN temp_board
                 ELSE LET chk == is_check(me.side, temp_board.value)
                      IN  IF chk.raised THEN chk
                          ELSE IF chk.value THEN Return(FALSE)
                          ELSE Return(TRUE)

\* piece.can_move_to(...): dispatch on the class of the piece.
can_move_to(self, pos_X, pos_Y, B) ==
    IF B.pieces[self].kind = "King"
    THEN King_can_move_to(self, pos_X, pos_Y, B)
    ELSE Bishop_can_move_to(self, pos_X, pos_Y, B)

(***************************************************************************)
(* The terminal-state oracles.                                             *)
(***************************************************************************)
NoMove == <<>>

\* "for x in range(1, B[0]+1): for y in range(1, B[0]+1): if
\* piece.can_move_to(x, y, B)": the scan of one piece's destinations from
\* the n-th square on, x outermost.  It returns the first destination that
\* can_move_to accepts, NoMove when there is none, and raises what
\* can_move_to raises before that.
\* The scan with the loops exchanged: y outermost.
RECURSIVE first_move_rank_major(_, _, _)
first_move_rank_major(self, B, n) ==
    IF n >= B.size * B.size
    THEN Return(NoMove)
    ELSE LET x == (n % B.size) + 1
             y == (n \div B.size) + 1
             r == can_move_to(self, x, y, B)
         IN  IF r.raised THEN r
             ELSE IF r.value THEN Return(<<x, y>>)
             ELSE first_move_rank_major(self, B, n + 1)

RECURSIVE first_move(_, _, _)
first_move(self, B, n) ==
    IF n >= B.size * B.size
    THEN Return(NoMove)
    ELSE LET x == (n \div B.size) + 1
             y == (n % B.size) + 1
             r == can_move_to(self, x, y, B)
         IN  IF r.raised THEN r
             ELSE IF r.value THEN Return(<<x, y>>)
             ELSE first_move(self, B, n + 1)

\* "for piece in B[1]: if piece.side == side: ...": the loop of is_checkmate
\* (lines 213-220) and of is_stalemate (lines 235-242) from the k-th piece on:
\* False at the first move found, True when the loop ends.
RECURSIVE no_move_from(_, _, _)
no_move_from(side, B, k) ==
    IF k > Len(B.pieces)
    THEN Return(TRUE)
    ELSE IF B.pieces[k].side # side
    THEN no_move_from(side, B, k + 1)
    ELSE LET m == first_move(k, B, 0)
         IN  IF m.raised THEN m
             ELSE IF m.value # NoMove THEN Return(FALSE)
             ELSE no_move_from(side, B, k + 1)

\* is_checkmate without its first test (lines 210-211).
is_checkmate_any_position(side, B) ==
    LET chk == is_check(side, B)
    IN  IF chk.raised THEN chk
        ELSE no_move_from(side, B, 1)

is_checkmate(side, B) ==
    LET chk == is_check(side, B)
    IN  IF chk.raised THEN chk
        ELSE IF ~chk.value THEN Return(FALSE)
        ELSE no_move_from(side, B, 1)

\* is_stalemate without its first test (lines 232-233).
is_stalemate_any_position(side, B) ==
    LET chk == is_check(side, B)
    IN  IF chk.raised THEN chk
        ELSE no_move_from(side, B, 1)

is_stalemate(side, B) ==
    LET chk == is_check(side, B)
    IN  IF chk.raised THEN chk
        ELSE IF chk.value THEN Return(FALSE)
        ELSE no_move_from(side, B, 1)

(***************************************************************************)
(* The move selector.                                                      *)
(***************************************************************************)
\* The black pieces of B, in the order of B[1] (line 301).
RECURSIVE black_pieces_from(_, _)
black_pieces_from(B, k) ==
    IF k > Len(B.pieces) THEN <<>>
    ELSE IF ~B.pieces[k].side
    THEN <<k>> \o black_pieces_from(B, k + 1)
    ELSE black_pieces_from(B, k + 1)

\* random.shuffle leaves the list in any of its orders.
Shuffles(s) ==
    {t \in [1..Len(s) -> {s[k] : k \in 1..Len(s)}] :
        \A a, b \in 1..Len(s) : a # b => t[a] # t[b]}

\* The loop of lines 303-308 over the shuffled list from its k-th piece on.
RECURSIVE find_in_order(_, _, _)
find_in_order(B, black_pieces, k) ==
    IF k > Len(black_pieces)
    THEN Raise("ValueError")
    ELSE LET m == first_move(black_pieces[k], B, 0)
         IN  IF m.raised THEN m
             ELSE IF m.value # NoMove
             THEN Return(<<black_pieces[k], m.value[1], m.value[2]>>)
             ELSE find_in_order(B, black_pieces, k + 1)

\* find_black_move that gives up after the first piece of the shuffled list.
find_black_move_first_piece_only(B, shuffled) ==
    IF shuffled = <<>>
    THEN Raise("ValueError")
    ELSE LET m == first_move(shuffled[1], B, 0)
         IN  IF m.raised THEN m
             ELSE IF m.value # NoMove
             THEN Return(<<shuffled[1], m.value[1], m.value[2]>>)
             ELSE Raise("ValueError")

\* find_black_move with the result of the shuffle as a parameter.
find_black_move(B, shuffled) == find_in_order(B, shuffled, 1)

(***************************************************************************)
(* conf2unicode changes nothing, but "board[piece.pos_y - 1][piece.pos_x - *)
(* 1] = symbol" raises IndexError for a piece outside the index range of a *)
(* Python list of B[0] elements, which is -B[0] .. B[0]-1.                 *)
(***************************************************************************)
conf2unicode_raises(B) ==
    \E k \in 1..Len(B.pieces) :
        \/ B.pieces[k].pos_y - 1 < -B.size \/ B.pieces[k].pos_y - 1 > B.size - 1
        \/ B.pieces[k].pos_x - 1 < -B.size \/ B.pieces[k].pos_x - 1 > B.size - 1

(***************************************************************************)
(* The plain format.  A file is the text written to it; open, write and    *)
(* readlines keep it as it is.                                             *)
(***************************************************************************)
\* ", ".join(tokens)
RECURSIVE join(_)
join(tokens) ==
    IF tokens = <<>> THEN <<>>
    ELSE IF Len(tokens) = 1 THEN tokens[1]
    ELSE tokens[1] \o <<44, 32>> \o join(Tail(tokens))

\* f"{type(piece).__name__[0]}{index2location(piece.pos_x, piece.pos_y)}"
token_of(piece) ==
    LET loc == index2location(piece.pos_x, piece.pos_y)
    IN  IF loc.raised THEN loc
        ELSE Return(<<(IF piece.kind = "King" THEN 75 ELSE 66)>> \o loc.value)

\* The text save_board leaves in the file: the size, the white pieces and
\* the black pieces in the order of B[1], each on a line, the last one
\* without a newline.  What index2location raises leaves save_board.
save_board(B) ==
    LET white_pieces == SelectSeq(B.pieces, LAMBDA piece : piece.side)
        black_pieces == SelectSeq(B.pieces, LAMBDA piece : ~piece.side)
        texts(ps) == [k \in 1..Len(ps) |-> token_of(ps[k]).value]
    IN  IF \E k \in 1..Len(B.pieces) : token_of(B.pieces[k]).raised
        THEN Raise("ValueError")
        ELSE Return(str(B.size) \o <<10>> \o join(texts(white_pieces)) \o <<10>>
                      \o join(texts(black_pieces)))

\* file.readlines(): the lines of the text, each with its newline.
RECURSIVE readlines(_)
readlines(text) ==
    IF text = <<>> THEN <<>>
    ELSE IF \E k \in 1..Len(text) : text[k] = 10
    THEN LET k == CHOOSE i \in 1..Len(text) :
                     text[i] = 10 /\ \A j \in 1..(i - 1) : text[j] # 10
         IN  <<SubSeq(text, 1, k)>> \o readlines(SubSeq(text, k + 1, Len(text)))
    ELSE <<text>>

\* s.split(", ")
RECURSIVE split(_)
split(s) ==
    IF \E k \in 1..(Len(s) - 1) : s[k] = 44 /\ s[k + 1] = 32
    THEN LET k == CHOOSE i \in 1..(Len(s) - 1) :
                     /\ s[i] = 44 /\ s[i + 1] = 32
                     /\ \A j \in 1..(i - 1) : ~(s[j] = 44 /\ s[j + 1] = 32)
         IN  <<SubSeq(s, 1, k - 1)>> \o split(SubSeq(s, k + 2, Len(s)))
    ELSE <<s>>

\* The inner loop of read_board (lines 263-271) from the k-th token on:
\* piece[0] raises IndexError on an empty token, and a token with another
\* letter than K or B adds nothing.
RECURSIVE read_tokens(_, _, _, _)
read_tokens(tokens, k, side, pieces) ==
    IF k > Len(tokens) THEN Return(pieces)
    ELSE IF tokens[k] = <<>> THEN Raise("IndexError")
    ELSE LET piece_type == tokens[k][1]
             pos == location2index(Tail(tokens[k]))
         IN  IF pos.raised THEN pos
             ELSE IF piece_type = 75
             THEN read_tokens(tokens, k + 1, side,
                              Append(pieces, King(pos.value[1], pos.value[2], side)))
             ELSE IF piece_type = 66
             THEN read_tokens(tokens, k + 1, side,
                              Append(pieces, Bishop(pos.value[1], pos.value[2], side)))
             ELSE read_tokens(tokens, k + 1, side, pieces)

\* The outer loop (lines 257-271) over rest = lines[1:] from index i on
\* (i counts from 0 as enumerate does): a blank line is skipped, the line of
\* index 0 is White's and every other line is Black's.
RECURSIVE read_lines(_, _, _)
read_lines(rest, i, pieces) ==
    IF i >= Len(rest) THEN Return(pieces)
    ELSE IF strip(rest[i + 1]) = <<>>
    THEN read_lines(rest, i + 1, pieces)
    ELSE LET more == read_tokens(split(strip(rest[i + 1])), 1, i = 0, pieces)
         IN  IF more.raised THEN more
             ELSE read_lines(rest, i + 1, more.value)

\* read_board that takes the first line that is not blank for White's.
read_board_first_filled_line_white(text) ==
    LET lines == readlines(text)
    IN  IF lines = <<>>
        THEN Raise("IndexError")
        ELSE LET size == int(strip(lines[1]))
                 pieces == read_lines(SelectSeq(Tail(lines),
                                                LAMBDA line : strip(line) # <<>>),
                                      0, <<>>)
             IN  IF size.raised THEN size
                 ELSE IF pieces.raised THEN pieces
                 ELSE Return(Board(size.value, pieces.value))

\* read_board on the text of the file; lines[0] raises IndexError on an
\* empty file.
read_board(text) ==
    LET lines == readlines(text)
    IN  IF lines = <<>>
        THEN Raise("IndexError")
        ELSE LET size == int(strip(lines[1]))
                 pieces == read_lines(Tail(lines), 0, <<>>)
             IN  IF size.raised THEN size
                 ELSE IF pieces.raised THEN pieces
                 ELSE Return(Board(size.value, pieces.value))

(***************************************************************************)
(* The state: the board held by main(), where main() is, and the last      *)
(* message it printed.  op and ret record the last function applied to     *)
(* board by the function-level specification, with its results.            *)
(***************************************************************************)
VARIABLES board, pc, out, op, ret

vars == <<board, pc, out, op, ret>>

Squares == (1..BoardSize) \X (1..BoardSize)

SquareNo(p) == (p.pos_x - 1) * BoardSize + p.pos_y

\* The piece p may follow the pieces ps in a list built as read_board builds
\* it from a well-formed file: on a free square, the white pieces before the
\* black ones, at most one king a side.  The pieces of a side are listed in
\* the order of their squares, which leaves one list for each set of pieces.
MayFollow(ps, p) ==
    \A k \in 1..Len(ps) :
        /\ ~(ps[k].pos_x = p.pos_x /\ ps[k].pos_y = p.pos_y)
        /\ ~(ps[k].kind = "King" /\ p.kind = "King" /\ ps[k].side = p.side)
        /\ (ps[k].side \/ ~p.side)
        /\ (ps[k].side = p.side => SquareNo(ps[k]) < SquareNo(p))

AllPieces ==
    {Piece(k, s, sq[1], sq[2]) : k \in {"King", "Bishop"}, s \in BOOLEAN, sq \in Squares}

\* The lists of exactly n pieces.
RECURSIVE PieceLists(_)
PieceLists(n) ==
    IF n = 0 THEN {<<>>}
    ELSE UNION {{Append(ps, p) : p \in {q \in AllPieces : MayFollow(ps, q)}} :
                  ps \in PieceLists(n - 1)}

\* The boards the functions are applied to.
Boards == {Board(BoardSize, ps) : ps \in UNION {PieceLists(n) : n \in 0..MaxPieces}}

HasKing(side, B) ==
    \E k \in 1..Len(B.pieces) : B.pieces[k].kind = "King" /\ B.pieces[k].side = side

\* The starting boards of a game: a king on each side.
StartBoards == {B \in Boards : HasKing(White, B) /\ HasKing(Black, B)}

(***************************************************************************)
(* The game loop of main(), from the first "Next move of White:" on.  The  *)
(* board was read by read_board and printed by conf2unicode (line 347).    *)
(***************************************************************************)
Init ==
    /\ board \in StartBoards
    /\ pc = "AwaitWhiteMove"
    /\ out = "initial"
    /\ op = "none"
    /\ ret = <<>>

\* The lines White may type: a file letter and one digit for the source
\* square, a file letter and one digit for the destination.  The source is a
\* square of the board, its file in either case ("A" is file 1); the
\* destination has files up to one column right of the board and ranks from
\* 0 to one row above it.  Then the lines that do not parse, and "quit".
SourceFiles == {97 + k : k \in 0..(BoardSize - 1)} \cup {65}
SourceRanks == {48 + k : k \in 1..BoardSize}
DestFiles == {97 + k : k \in 0..BoardSize}
DestRanks == {48 + k : k \in 0..(BoardSize + 1)}
QUIT == <<81, 85, 73, 84>>
Malformed == {<<>>, <<97, 49>>, <<97, 49, 98>>, <<97, 49, 98, 120>>, <<49, 97, 50, 98>>}
Lines ==
    {<<f1, r1, f2, r2>> : f1 \in SourceFiles, r1 \in SourceRanks,
                          f2 \in DestFiles, r2 \in DestRanks}
        \cup Malformed \cup {<<113, 117, 105, 116>>}

\* move[:2] and move[2:]
Prefix2(move) == SubSeq(move, 1, IF Len(move) < 2 THEN Len(move) ELSE 2)
From2(move) == SubSeq(move, 3, Len(move))

Outcome(B, where, said) == [board |-> B, pc |-> where, out |-> said]

\* Lines 363-369 without the test of lines 367-369.
after_white_move_no_stalemate_test(B) ==
    IF conf2unicode_raises(B)
    THEN Outcome(B, "AwaitWhiteMove", "invalid")
    ELSE
    LET mate == is_checkmate(Black, B)
    IN  IF mate.raised
        THEN Outcome(B, "AwaitWhiteMove", "invalid")
        ELSE IF mate.value
        THEN Outcome(B, "Terminated", "white_wins")
        ELSE Outcome(B, "AwaitBlackMove", "white_moved")

\* Lines 363-369, with the board that line 362 has just assigned: the except
\* clause prints "This is not a valid move" and the loop continues with that
\* board.
after_white_move(B) ==
    IF conf2unicode_raises(B)
    THEN Outcome(B, "AwaitWhiteMove", "invalid")
    ELSE
    LET mate == is_checkmate(Black, B)
        stale == is_stalemate(Black, B)
    IN  IF mate.raised
        THEN Outcome(B, "AwaitWhiteMove", "invalid")
        ELSE IF mate.value
        THEN Outcome(B, "Terminated", "white_wins")
        ELSE IF stale.raised
        THEN Outcome(B, "AwaitWhiteMove", "invalid")
        ELSE IF stale.value
        THEN Outcome(B, "Terminated", "stalemate")
        ELSE Outcome(B, "AwaitBlackMove", "white_moved")

\* Lines 351-374 on the line move: what main() holds and prints at the end
\* of the try block.  An exception raised before line 362 has assigned
\* leaves the board as it was.  (The CHOOSE only names the board returned by
\* move_to, so that it is computed once.)
white_turn(move, B) ==
    IF [k \in 1..Len(move) |-> upper(move[k])] = QUIT
    THEN Outcome(B, "Terminated", "saved")
    ELSE
    LET start == location2index(Prefix2(move))
        end == location2index(From2(move))
    IN  IF start.raised \/ end.raised
        THEN Outcome(B, "AwaitWhiteMove", "invalid")
        ELSE
        LET piece == piece_at(start.value[1], start.value[2], B)
        IN  IF piece.raised
            THEN Outcome(B, "AwaitWhiteMove", "invalid")
            ELSE IF ~B.pieces[piece.value].side
            THEN Outcome(B, "AwaitWhiteMove", "invalid")
            ELSE
            CHOOSE o \in {IF moved.raised
                          THEN Outcome(B, "AwaitWhiteMove", "invalid")
                          ELSE after_white_move(moved.value) :
                            moved \in {move_to(piece.value, end.value[1], end.value[2], B)}} :
                TRUE

\* Lines 378-385, with the board that line 377 has just assigned: an
\* exception here is not caught and ends the program with a traceback.
after_black_move(B) ==
    IF conf2unicode_raises(B)
    THEN Outcome(B, "Crashed", "traceback")
    ELSE
    LET mate == is_checkmate(White, B)
        stale == is_stalemate(White, B)
    IN  IF mate.raised
        THEN Outcome(B, "Crashed", "traceback")
        ELSE IF mate.value
        THEN Outcome(B, "Terminated", "black_wins")
        ELSE IF stale.raised
        THEN Outcome(B, "Crashed", "traceback")
        ELSE IF stale.value
        THEN Outcome(B, "Terminated", "stalemate")
        ELSE Outcome(B, "AwaitWhiteMove", "black_moved")

\* Lines 376-385 with the shuffle's result; nothing catches what
\* find_black_move or move_to raise.
black_turn(shuffled, B) ==
    CHOOSE o \in {IF found.raised
                  THEN Outcome(B, "Crashed", "traceback")
                  ELSE CHOOSE r \in
                         {IF moved.raised
                          THEN Outcome(B, "Crashed", "traceback")
                          ELSE after_black_move(moved.value) :
                            moved \in {move_to(found.value[1], found.value[2],
                                               found.value[3], B)}} : TRUE :
                    found \in {find_black_move(B, shuffled)}} :
        TRUE

WhiteInput ==
    /\ pc = "AwaitWhiteMove"
    /\ \E o \in {white_turn(move, board) : move \in Lines} :
          /\ board' = o.board
          /\ pc' = o.pc
          /\ out' = o.out
    /\ UNCHANGED <<op, ret>>

BlackMove ==
    /\ pc = "AwaitBlackMove"
    /\ \E o \in {black_turn(shuffled, board) :
                    shuffled \in Shuffles(black_pieces_from(board, 1))} :
          /\ board' = o.board
          /\ pc' = o.pc
          /\ out' = o.out
    /\ UNCHANGED <<op, ret>>

Next ==
    \/ WhiteInput
    \/ BlackMove

Spec == Init /\ [][Next]_vars

(***************************************************************************)
(* The function-level specification.  It starts from any board of Boards   *)
(* and applies one function of the module to it, on every argument of a    *)
(* bounded set: every piece of the board, every destination of Probes      *)
(* (the squares of the board and the ring of squares around it) and both   *)
(* sides.  The functions do not change the board they are given, so each   *)
(* behaviour holds one application.                                        *)
(***************************************************************************)
Probes == (0..(BoardSize + 1)) \X (0..(BoardSize + 1))

MoveArgs(B) == {<<p, d[1], d[2]>> : p \in 1..Len(B.pieces), d \in Probes}

InitCalls ==
    /\ board \in Boards
    /\ pc = "Calls"
    /\ out = "none"
    /\ op = "none"
    /\ ret = <<>>

CallCanReach ==
    /\ pc = "Calls"
    /\ op = "none"
    /\ op' = "can_reach"
    /\ ret' = [a \in MoveArgs(board) |-> can_reach(a[1], a[2], a[3], board)]
    /\ UNCHANGED <<board, pc, out>>

CallCanMoveTo ==
    /\ pc = "Calls"
    /\ op = "none"
    /\ op' = "can_move_to"
    /\ ret' = [a \in MoveArgs(board) |-> can_move_to(a[1], a[2], a[3], board)]
    /\ UNCHANGED <<board, pc, out>>

CallMoveTo ==
    /\ pc = "Calls"
    /\ op = "none"
    /\ op' = "move_to"
    /\ ret' = [a \in MoveArgs(board) |-> move_to(a[1], a[2], a[3], board)]
    /\ UNCHANGED <<board, pc, out>>

CallIsCheck ==
    /\ pc = "Calls"
    /\ op = "none"
    /\ op' = "is_check"
    /\ ret' = [side \in BOOLEAN |-> is_check(side, board)]
    /\ UNCHANGED <<board, pc, out>>

CallIsCheckmate ==
    /\ pc = "Calls"
    /\ op = "none"
    /\ op' = "is_checkmate"
    /\ ret' = [side \in BOOLEAN |-> is_checkmate(side, board)]
    /\ UNCHANGED <<board, pc, out>>

CallIsStalemate ==
    /\ pc = "Calls"
    /\ op = "none"
    /\ op' = "is_stalemate"
    /\ ret' = [side \in BOOLEAN |-> is_stalemate(side, board)]
    /\ UNCHANGED <<board, pc, out>>

\* find_black_move(board), for every order the shuffle may leave.
CallFindBlackMove ==
    /\ pc = "Calls"
    /\ op = "none"
    /\ op' = "find_black_move"
    /\ ret' = [shuffled \in Shuffles(black_pieces_from(board, 1)) |->
                  find_black_move(board, shuffled)]
    /\ UNCHANGED <<board, pc, out>>

NextCalls ==
    \/ CallCanReach
    \/ CallCanMoveTo
    \/ CallMoveTo
    \/ CallIsCheck
    \/ CallIsCheckmate
    \/ CallIsStalemate
    \/ CallFindBlackMove

SpecCalls == InitCalls /\ [][NextCalls]_vars

(***************************************************************************)
(* The functions applied to the boards of test_is_check's kind: a white    *)
(* king and a black bishop anywhere on a board of the test's size.         *)
(***************************************************************************)
\* The size of the board of test_is_check.
ExampleSize == 5

ExampleSquares == (1..ExampleSize) \X (1..ExampleSize)

ExamplePairs ==
    {Board(ExampleSize, <<King(k[1], k[2], White), Bishop(b[1], b[2], Black)>>) :
        k \in ExampleSquares, b \in ExampleSquares}

ExampleBoards ==
    {B \in ExamplePairs : ~is_piece_at(B.pieces[2].pos_x, B.pieces[2].pos_y,
                                      Board(B.size, <<B.pieces[1]>>))}

InitExample ==
    /\ board \in ExampleBoards
    /\ pc = "Calls"
    /\ out = "none"
    /\ op = "none"
    /\ ret = <<>>

SpecExample == InitExample /\ [][NextCalls]_vars

(***************************************************************************)
(* The codec specification: each behaviour applies the coordinate codec    *)
(* or the file codec to one input.                                         *)
(***************************************************************************)
\* The number of letters of a file name: the files run from a to z.
MaxFile == 26
\* The largest rank encoded.
MaxRank == 99
\* The longest location string decoded.
MaxTextLen == 3
\* The largest number of pieces of a board saved.
CodecPieces == 3

\* The squares of the pieces saved: a corner, a square with a rank of two
\* digits, and the last file with the last rank.
CodecSquares == {<<1, 1>>, <<2, 10>>, <<MaxFile, MaxFile>>}

CodecSizes == {1, 10, MaxFile}

CodecPieceSet(n) ==
    {Piece(k, side, sq[1], sq[2]) :
        k \in {"King", "Bishop"}, side \in BOOLEAN,
        sq \in {q \in CodecSquares : q[1] <= n /\ q[2] <= n}}

\* The boards saved: any list of up to CodecPieces pieces, in any order.
CodecBoards ==
    UNION {{Board(n, ps) : ps \in UNION {[1..m -> CodecPieceSet(n)] : m \in 0..CodecPieces}} :
             n \in CodecSizes}

\* The characters of the location strings decoded: a, Z, 0, 1, 9, +, -,
\* space, _ and @.
CodecChars == {97, 90, 48, 49, 57, 43, 45, 32, 95, 64}

Locations == UNION {[1..n -> CodecChars] : n \in 0..MaxTextLen}

InitCodec ==
    /\ board = Board(BoardSize, <<>>)
    /\ pc = "Codec"
    /\ out = "none"
    /\ op = "none"
    /\ ret = <<>>

\* save_board(file, B), then read_board(file).
CallSaveBoard ==
    /\ pc = "Codec"
    /\ op = "none"
    /\ op' = "save_board"
    /\ \E B \in CodecBoards :
          ret' = [B |-> B,
                  file |-> save_board(B),
                  read |-> IF save_board(B).raised
                           THEN save_board(B)
                           ELSE read_board(save_board(B).value)]
    /\ UNCHANGED <<board, pc, out>>

\* index2location(x, y), then location2index of the string and of the string
\* with its letter in upper case.
CallIndex2Location ==
    /\ pc = "Codec"
    /\ op = "none"
    /\ op' = "index2location"
    /\ \E x \in 1..MaxFile, y \in 1..MaxRank :
          LET loc == index2location(x, y)
          IN  ret' = [x |-> x, y |-> y, loc |-> loc,
                      back |-> IF loc.raised THEN loc ELSE location2index(loc.value),
                      upper |-> IF loc.raised THEN loc
                                ELSE location2index(<<upper(loc.value[1])>>
                                                      \o Tail(loc.value))]
    /\ UNCHANGED <<board, pc, out>>

\* location2index(loc)
CallLocation2Index ==
    /\ pc = "Codec"
    /\ op = "none"
    /\ op' = "location2index"
    /\ \E loc \in Locations :
          ret' = [loc |-> loc, result |-> location2index(loc)]
    /\ UNCHANGED <<board, pc, out>>

NextCodec ==
    \/ CallSaveBoard
    \/ CallIndex2Location
    \/ CallLocation2Index

SpecCodec == InitCodec /\ [][NextCodec]_vars

(***************************************************************************)
(* The heap specification.  A Python board is a tuple (size, list) whose   *)
(* list, and the Piece objects in it, are mutable and shared by reference. *)
(* The heap holds the lists (sequences of object ids) and the objects; a   *)
(* board is the id of its list.  The statements of the source that write   *)
(* to the heap are those of move_to (lines 127-132, 175-180) and lines     *)
(* 301-302 of find_black_move; every other function only reads, and calls  *)
(* these.                                                                  *)
(***************************************************************************)
HeapOf(B) ==
    [lists |-> <<[k \in 1..Len(B.pieces) |-> k]>>, objs |-> B.pieces]

\* The board the list l of the heap stands for.
View(h, n, l) == Board(n, [k \in 1..Len(h.lists[l]) |-> h.objs[h.lists[l][k]]])

\* What a call leaves to a caller that drops its result: the cells it was
\* given, the cells the call has allocated being garbage.
Truncate(h, before) ==
    [lists |-> SubSeq(h.lists, 1, Len(before.lists)),
     objs |-> SubSeq(h.objs, 1, Len(before.objs))]

\* list.remove(x): the list without its first element x.
RemoveFirst(s, x) ==
    RemoveAt(s, CHOOSE i \in 1..Len(s) : s[i] = x /\ \A j \in 1..(i - 1) : s[j] # x)

\* move_to that moves the piece itself ("self.pos_x = pos_X; self.pos_y =
\* pos_Y") and puts it in the new list, instead of building a new piece.
heap_move_to_in_place(h, n, l, self, pos_X, pos_Y) ==
    LET B == View(h, n, l)
        me == h.lists[l][self]
        comprehension == SelectSeq(h.lists[l], LAMBDA id : id # me)
        moved == [h.objs[me] EXCEPT !.pos_x = pos_X, !.pos_y = pos_Y]
        new_pieces == Len(h.lists) + 1
    IN  IF is_piece_at(pos_X, pos_Y, B)
             /\ h.lists[l][piece_at(pos_X, pos_Y, B).value] = me
        THEN [raised |-> TRUE, heap |-> [h EXCEPT !.lists = Append(@, comprehension)],
              list |-> 0]
        ELSE [raised |-> FALSE,
              heap |-> [lists |-> Append(h.lists,
                            Append(IF is_piece_at(pos_X, pos_Y, B)
                                   THEN RemoveFirst(comprehension,
                                          h.lists[l][piece_at(pos_X, pos_Y, B).value])
                                   ELSE comprehension,
                                   me)),
                        objs |-> [h.objs EXCEPT ![me] = moved]],
              list |-> new_pieces]

\* self.move_to(pos_X, pos_Y, B) on the heap, self being the piece at index
\* self of the list l: the comprehension of line 127 allocates the list
\* new_pieces, remove (line 130) and append (line 131) write to that list,
\* and Bishop(...) or King(...) allocates the piece appended.  It returns
\* the heap and the list of the new board.
heap_move_to(h, n, l, self, pos_X, pos_Y) ==
    LET B == View(h, n, l)
        me == h.lists[l][self]
        comprehension == SelectSeq(h.lists[l], LAMBDA id : id # me)
        moved == Piece(h.objs[me].kind, h.objs[me].side, pos_X, pos_Y)
        new_pieces == Len(h.lists) + 1
    IN  IF is_piece_at(pos_X, pos_Y, B)
             /\ h.lists[l][piece_at(pos_X, pos_Y, B).value] = me
        THEN [raised |-> TRUE, heap |-> [h EXCEPT !.lists = Append(@, comprehension)],
              list |-> 0]
        ELSE [raised |-> FALSE,
              heap |-> [lists |-> Append(h.lists,
                            Append(IF is_piece_at(pos_X, pos_Y, B)
                                   THEN RemoveFirst(comprehension,
                                          h.lists[l][piece_at(pos_X, pos_Y, B).value])
                                   ELSE comprehension,
                                   Len(h.objs) + 1)),
                        objs |-> Append(h.objs, moved)],
              list |-> new_pieces]

\* can_move_to gets as far as "temp_board = self.move_to(...)" (lines 116,
\* 164): none of the tests before it has returned False.
simulates_move(self, pos_X, pos_Y, B) ==
    LET me == B.pieces[self]
        own == /\ is_piece_at(pos_X, pos_Y, B)
               /\ B.pieces[piece_at(pos_X, pos_Y, B).value].side = me.side
    IN  IF me.kind = "King"
        THEN /\ 1 <= pos_X /\ pos_X <= B.size /\ 1 <= pos_Y /\ pos_Y <= B.size
             /\ ~(me.pos_x = pos_X /\ me.pos_y = pos_Y)
             /\ max(abs(me.pos_x - pos_X), abs(me.pos_y - pos_Y)) <= 1
             /\ ~own
        ELSE Bishop_can_reach(self, pos_X, pos_Y, B) /\ ~own

\* The heap after self.can_move_to(pos_X, pos_Y, B).
heap_can_move_to(h, n, l, self, pos_X, pos_Y) ==
    IF simulates_move(self, pos_X, pos_Y, View(h, n, l))
    THEN heap_move_to(h, n, l, self, pos_X, pos_Y).heap
    ELSE h

\* The heap after the scan of one piece's destinations from the k-th square
\* on (see first_move).
RECURSIVE heap_first_move(_, _, _, _, _)
heap_first_move(h, n, l, self, k) ==
    IF k >= n * n
    THEN h
    ELSE LET x == (k \div n) + 1
             y == (k % n) + 1
             r == can_move_to(self, x, y, View(h, n, l))
         IN  IF r.raised \/ r.value
             THEN heap_can_move_to(h, n, l, self, x, y)
             ELSE heap_first_move(heap_can_move_to(h, n, l, self, x, y), n, l, self, k + 1)

\* The heap after the loop of is_checkmate and is_stalemate from the k-th
\* piece on (see no_move_from).
RECURSIVE heap_no_move_from(_, _, _, _, _)
heap_no_move_from(side, h, n, l, k) ==
    IF k > Len(h.lists[l])
    THEN h
    ELSE IF View(h, n, l).pieces[k].side # side
    THEN heap_no_move_from(side, h, n, l, k + 1)
    ELSE LET m == first_move(k, View(h, n, l), 0)
         IN  IF m.raised \/ m.value # NoMove
             THEN heap_first_move(h, n, l, k, 0)
             ELSE heap_no_move_from(side, heap_first_move(h, n, l, k, 0), n, l, k + 1)

\* The heap after is_check(side, B), which has no statement that writes
\* (lines 190-198), after is_checkmate(side, B) and after
\* is_stalemate(side, B).
heap_is_check(side, h, n, l) == h

heap_is_checkmate(side, h, n, l) ==
    LET chk == is_check(side, View(h, n, l))
    IN  IF ~chk.raised /\ chk.value
        THEN heap_no_move_from(side, heap_is_check(side, h, n, l), n, l, 1)
        ELSE heap_is_check(side, h, n, l)

heap_is_stalemate(side, h, n, l) ==
    LET chk == is_check(side, View(h, n, l))
    IN  IF ~chk.raised /\ ~chk.value
        THEN heap_no_move_from(side, heap_is_check(side, h, n, l), n, l, 1)
        ELSE heap_is_check(side, h, n, l)

\* The heap after the loop of find_black_move over the shuffled pieces from
\* the k-th on (see find_in_order).
RECURSIVE heap_find_in_order(_, _, _, _, _)
heap_find_in_order(h, n, l, shuffled, k) ==
    IF k > Len(shuffled)
    THEN h
    ELSE LET m == first_move(shuffled[k], View(h, n, l), 0)
         IN  IF m.raised \/ m.value # NoMove
             THEN heap_first_move(h, n, l, shuffled[k], 0)
             ELSE heap_find_in_order(heap_first_move(h, n, l, shuffled[k], 0),
                                     n, l, shuffled, k + 1)

\* The heap after find_black_move(B): line 301 allocates the list
\* black_pieces, random.shuffle (line 302) writes the new order to that
\* list.  shuffled is that order, as indices of the list l.
heap_find_black_move(h, n, l, shuffled) ==
    heap_find_in_order(
        [h EXCEPT !.lists = Append(@, [k \in 1..Len(shuffled) |-> h.lists[l][shuffled[k]]])],
        n, l, shuffled, 1)

\* A caller holds a board (board, the list 1 of the heap), may take one
\* more board from move_to (the list ret.cur, whose value was ret.held when
\* move_to returned it), and applies the functions to the last board it
\* took, dropping their results.
InitHeap ==
    /\ board \in StartBoards
    /\ pc = "Held"
    /\ out = "none"
    /\ op = "none"
    /\ ret = [heap |-> HeapOf(board), cur |-> 1, held |-> board]

HeapKeepMove ==
    /\ pc = "Held"
    /\ op = "none"
    /\ \E self \in 1..Len(board.pieces), d \in Squares :
          LET r == heap_move_to(ret.heap, board.size, ret.cur, self, d[1], d[2])
          IN  /\ ~r.raised
              /\ ret' = [heap |-> r.heap, cur |-> r.list,
                          held |-> View(r.heap, board.size, r.list)]
    /\ pc' = "Moved"
    /\ UNCHANGED <<board, out, op>>

HeapMoveTo ==
    /\ op = "none"
    /\ op' = "move_to"
    /\ \E a \in MoveArgs(ret.held) :
          ret' = [ret EXCEPT !.heap =
                    Truncate(heap_move_to(ret.heap, board.size, ret.cur,
                                          a[1], a[2], a[3]).heap, ret.heap)]
    /\ UNCHANGED <<board, pc, out>>

HeapCanMoveTo ==
    /\ op = "none"
    /\ op' = "can_move_to"
    /\ \E a \in MoveArgs(ret.held) :
          ret' = [ret EXCEPT !.heap =
                    Truncate(heap_can_move_to(ret.heap, board.size, ret.cur,
                                              a[1], a[2], a[3]), ret.heap)]
    /\ UNCHANGED <<board, pc, out>>

HeapIsCheck ==
    /\ op = "none"
    /\ op' = "is_check"
    /\ \E side \in BOOLEAN :
          ret' = [ret EXCEPT !.heap =
                    Truncate(heap_is_check(side, ret.heap, board.size, ret.cur),
                             ret.heap)]
    /\ UNCHANGED <<board, pc, out>>

HeapIsCheckmate ==
    /\ op = "none"
    /\ op' = "is_checkmate"
    /\ \E side \in BOOLEAN :
          ret' = [ret EXCEPT !.heap =
                    Truncate(heap_is_checkmate(side, ret.heap, board.size, ret.cur),
                             ret.heap)]
    /\ UNCHANGED <<board, pc, out>>

HeapIsStalemate ==
    /\ op = "none"
    /\ op' = "is_stalemate"
    /\ \E side \in BOOLEAN :
          ret' = [ret EXCEPT !.heap =
                    Truncate(heap_is_stalemate(side, ret.heap, board.size, ret.cur),
                             ret.heap)]
    /\ UNCHANGED <<board, pc, out>>

HeapFindBlackMove ==
    /\ op = "none"
    /\ op' = "find_black_move"
    /\ \E shuffled \in Shuffles(black_pieces_from(ret.held, 1)) :
          ret' = [ret EXCEPT !.heap =
                    Truncate(heap_find_black_move(ret.heap, board.size, ret.cur,
                                                  shuffled), ret.heap)]
    /\ UNCHANGED <<board, pc, out>>

NextHeap ==
    \/ HeapKeepMove
    \/ HeapMoveTo
    \/ HeapCanMoveTo
    \/ HeapIsCheck
    \/ HeapIsCheckmate
    \/ HeapIsStalemate
    \/ HeapFindBlackMove

SpecHeap == InitHeap /\ [][NextHeap]_vars

(***************************************************************************)
(* Legal play: the two sides move in turn, each move one that can_move_to  *)
(* accepts for a piece of the side to move, applied by move_to.  Either    *)
(* side may begin, on a board with a king a side where the side that is    *)
(* not to move is not in check.                                            *)
(***************************************************************************)
NotInCheck(side, B) ==
    LET chk == is_check(side, B)
    IN  ~chk.raised /\ ~chk.value

\* The boards move_to returns for the moves of the side that can_move_to
\* accepts on B.
legal_moves(side, B) ==
    {move_to(a[1], a[2], a[3], B).value :
        a \in {b \in {<<p, sq[1], sq[2]>> : p \in 1..Len(B.pieces), sq \in Squares} :
                 /\ B.pieces[b[1]].side = side
                 /\ LET r == can_move_to(b[1], b[2], b[3], B)
                    IN  ~r.raised /\ r.value}}

InitLegal ==
    /\ pc \in {"WhiteToMove", "BlackToMove"}
    /\ board \in {B \in StartBoards : NotInCheck(pc # "WhiteToMove", B)}
    /\ out = "none"
    /\ op = "none"
    /\ ret = <<>>

LegalWhiteMove ==
    /\ pc = "WhiteToMove"
    /\ board' \in legal_moves(White, board)
    /\ pc' = "BlackToMove"
    /\ UNCHANGED <<out, op, ret>>

LegalBlackMove ==
    /\ pc = "BlackToMove"
    /\ board' \in legal_moves(Black, board)
    /\ pc' = "WhiteToMove"
    /\ UNCHANGED <<out, op, ret>>

NextLegal ==
    \/ LegalWhiteMove
    \/ LegalBlackMove

SpecLegal == InitLegal /\ [][NextLegal]_vars

(***************************************************************************)
(* Notions the properties below share.                                     *)
(***************************************************************************)
OnBoard(X, Y, B) == 1 <= X /\ X <= B.size /\ 1 <= Y /\ Y <= B.size

At(p, X, Y, B) == B.pieces[p].pos_x = X /\ B.pieces[p].pos_y = Y

\* Some piece of the given side stands on the square.
HoldsSide(side, X, Y, B) ==
    \E q \in 1..Len(B.pieces) : At(q, X, Y, B) /\ B.pieces[q].side = side

Yes(r) == ~r.raised /\ r.value
No(r) == ~r.raised /\ ~r.value

\* The king of the side, on a board that holds one.
KingOf(side, B) ==
    CHOOSE k \in 1..Len(B.pieces) : B.pieces[k].kind = "King" /\ B.pieces[k].side = side

\* The board after the move leaves the mover's side in check.
LeavesInCheck(p, X, Y, B) ==
    LET after == move_to(p, X, Y, B)
    IN  \/ after.raised
        \/ ~No(is_check(B.pieces[p].side, after.value))

(***************************************************************************)
(* C1 - Self-check veto.  On a board that holds a king of the piece's      *)
(* side, whenever can_move_to answers true for a piece and a destination,  *)
(* is_check for the piece's side answers false on the board move_to        *)
(* returns for that move.                                                  *)
(***************************************************************************)
C1_SelfCheckVeto ==
    op = "can_move_to" =>
        \A a \in DOMAIN ret :
            (HasKing(board.pieces[a[1]].side, board) /\ Yes(ret[a]))
                => ~LeavesInCheck(a[1], a[2], a[3], board)

\* can_move_to has accepted a capture by a bishop and refused another move
\* of the same bishop, to a free square it can reach, that opens the line to
\* its own king, which is not in check on the board as it stands: a pin.
C1_Witness ==
    /\ op = "can_move_to"
    /\ \E a, b \in DOMAIN ret :
          /\ a[1] = b[1]
          /\ board.pieces[a[1]].kind = "Bishop"
          /\ HasKing(board.pieces[a[1]].side, board)
          /\ No(is_check(board.pieces[a[1]].side, board))
          /\ Yes(ret[a])
          /\ can_reach(b[1], b[2], b[3], board)
          /\ ~is_piece_at(b[2], b[3], board)
          /\ No(ret[b])
          /\ LeavesInCheck(b[1], b[2], b[3], board)

(***************************************************************************)
(* C2 - Capture exclusivity.  For a destination on the board that the      *)
(* piece can reach: can_move_to answers false when a piece of its own side *)
(* stands there, and answers true when a piece of the other side stands    *)
(* there and the board after the move does not leave the king of the       *)
(* piece's side in check.                                                  *)
(***************************************************************************)
C2_CaptureExclusivity ==
    op = "can_move_to" =>
        \A a \in DOMAIN ret :
            LET side == board.pieces[a[1]].side
            IN  (OnBoard(a[2], a[3], board) /\ can_reach(a[1], a[2], a[3], board))
                  => /\ HoldsSide(side, a[2], a[3], board) => No(ret[a])
                     /\ ( /\ HoldsSide(~side, a[2], a[3], board)
                          /\ HasKing(side, board)
                          /\ ~LeavesInCheck(a[1], a[2], a[3], board) )
                        => Yes(ret[a])

\* can_move_to has refused a king the square of a bishop of its side next to
\* it, and has let a piece take a piece of the other side.
C2_Witness ==
    /\ op = "can_move_to"
    /\ \E a, b \in DOMAIN ret :
          /\ board.pieces[a[1]].kind = "King"
          /\ ~At(a[1], a[2], a[3], board)
          /\ can_reach(a[1], a[2], a[3], board)
          /\ HoldsSide(board.pieces[a[1]].side, a[2], a[3], board)
          /\ No(ret[a])
          /\ can_reach(b[1], b[2], b[3], board)
          /\ HoldsSide(~board.pieces[b[1]].side, b[2], b[3], board)
          /\ Yes(ret[b])

(***************************************************************************)
(* C5 - is_checkmate(side, B) answers true exactly when is_check(side, B)  *)
(* is true and no piece of that side has a destination among the squares   *)
(* of the board that can_move_to accepts; for a side not in check it       *)
(* answers false.  (On a board that holds a king of the side: without one  *)
(* is_check raises.)                                                       *)
(***************************************************************************)
HasLegalMove(side, B) ==
    \E p \in 1..Len(B.pieces) :
        /\ B.pieces[p].side = side
        /\ \E sq \in (1..B.size) \X (1..B.size) : Yes(can_move_to(p, sq[1], sq[2], B))

C5_Checkmate ==
    op = "is_checkmate" =>
        \A side \in BOOLEAN :
            HasKing(side, board) =>
                /\ ~ret[side].raised
                /\ ret[side].value <=>
                      (Yes(is_check(side, board)) /\ ~HasLegalMove(side, board))
                /\ No(is_check(side, board)) => ~ret[side].value

\* is_checkmate has answered true for one side, and false for the other
\* side, which is in check too but has a move.
C5_Witness ==
    /\ op = "is_checkmate"
    /\ \E side \in BOOLEAN :
          /\ Yes(ret[side])
          /\ No(ret[~side])
          /\ Yes(is_check(~side, board))
          /\ HasLegalMove(~side, board)

(***************************************************************************)
(* C6 - is_stalemate(side, B) answers true exactly when is_check(side, B)  *)
(* is false and no piece of that side has a destination among the squares  *)
(* of the board that can_move_to accepts; for a side in check it answers   *)
(* false.  (On a board that holds a king of the side.)                     *)
(***************************************************************************)
C6_Stalemate ==
    op = "is_stalemate" =>
        \A side \in BOOLEAN :
            HasKing(side, board) =>
                /\ ~ret[side].raised
                /\ ret[side].value <=>
                      (No(is_check(side, board)) /\ ~HasLegalMove(side, board))
                /\ Yes(is_check(side, board)) => ~ret[side].value

\* is_stalemate has answered true for one side, which is not in check and
\* whose king has a piece of the other side next to it that it may not take,
\* and false for the other side.
C6_Witness ==
    /\ op = "is_stalemate"
    /\ \E side \in BOOLEAN :
          /\ Yes(ret[side])
          /\ No(is_check(side, board))
          /\ \E q \in 1..Len(board.pieces) :
                /\ board.pieces[q].side = ~side
                /\ can_reach(KingOf(side, board), board.pieces[q].pos_x,
                             board.pieces[q].pos_y, board)
          /\ No(ret[~side])

(***************************************************************************)
(* C7 - On a board that holds a king of the side, is_check(side, B)        *)
(* answers true exactly when some piece of the other side has can_reach    *)
(* true for the king's square; the pieces of the side itself never count.  *)
(***************************************************************************)
Attacked(side, B) ==
    \E p \in 1..Len(B.pieces) :
        /\ B.pieces[p].side = ~side
        /\ can_reach(p, B.pieces[KingOf(side, B)].pos_x,
                        B.pieces[KingOf(side, B)].pos_y, B)

C7_Check ==
    op = "is_check" =>
        \A side \in BOOLEAN :
            HasKing(side, board) =>
                /\ ~ret[side].raised
                /\ ret[side].value <=> Attacked(side, board)

\* is_check has answered true for one side, and false for the other side,
\* whose king stands on a square that a bishop of its own side can reach.
C7_Witness ==
    /\ op = "is_check"
    /\ \E side \in BOOLEAN :
          /\ HasKing(side, board) /\ HasKing(~side, board)
          /\ Yes(ret[~side])
          /\ No(ret[side])
          /\ \E p \in 1..Len(board.pieces) :
                /\ board.pieces[p].side = side
                /\ board.pieces[p].kind = "Bishop"
                /\ can_reach(p, board.pieces[KingOf(side, board)].pos_x,
                                board.pieces[KingOf(side, board)].pos_y, board)

(***************************************************************************)
(* C8 - Bishop.can_reach(d, B) answers true exactly when d is a square of  *)
(* the board other than the bishop's, on a diagonal through the bishop,    *)
(* with no piece of either side strictly between the two; what stands on d *)
(* does not matter.                                                        *)
(***************************************************************************)
sign(n) == IF n > 0 THEN 1 ELSE IF n < 0 THEN -1 ELSE 0

\* The piece q stands strictly between the piece p and the square (X, Y) on
\* a diagonal.
Between(q, p, X, Y, B) ==
    LET qx == B.pieces[q].pos_x - B.pieces[p].pos_x
        qy == B.pieces[q].pos_y - B.pieces[p].pos_y
        tx == X - B.pieces[p].pos_x
        ty == Y - B.pieces[p].pos_y
    IN  /\ abs(qx) = abs(qy)
        /\ 0 < abs(qx) /\ abs(qx) < abs(tx)
        /\ sign(qx) = sign(tx) /\ sign(qy) = sign(ty)

BishopReaches(p, X, Y, B) ==
    /\ OnBoard(X, Y, B)
    /\ ~At(p, X, Y, B)
    /\ abs(B.pieces[p].pos_x - X) = abs(B.pieces[p].pos_y - Y)
    /\ \A q \in 1..Len(B.pieces) : ~Between(q, p, X, Y, B)

C8_BishopReach ==
    op = "can_reach" =>
        \A a \in DOMAIN ret :
            board.pieces[a[1]].kind = "Bishop"
                => (ret[a] <=> BishopReaches(a[1], a[2], a[3], board))

\* can_reach has answered true for a bishop and an occupied square two
\* steps away, and false for a bishop and a square behind another piece.
C8_Witness ==
    /\ op = "can_reach"
    /\ \E a, b \in DOMAIN ret :
          /\ board.pieces[a[1]].kind = "Bishop"
          /\ ret[a]
          /\ abs(board.pieces[a[1]].pos_x - a[2]) = 2
          /\ is_piece_at(a[2], a[3], board)
          /\ board.pieces[b[1]].kind = "Bishop"
          /\ ~ret[b]
          /\ \E q \in 1..Len(board.pieces) : Between(q, b[1], b[2], b[3], board)

(***************************************************************************)
(* C9 - King.can_reach(d, B) answers true exactly when d is not the king's *)
(* square and lies at Chebyshev distance at most 1 from it.                *)
(***************************************************************************)
C9_KingReach ==
    op = "can_reach" =>
        \A a \in DOMAIN ret :
            board.pieces[a[1]].kind = "King"
                => (ret[a] <=>
                      /\ ~At(a[1], a[2], a[3], board)
                      /\ max(abs(board.pieces[a[1]].pos_x - a[2]),
                             abs(board.pieces[a[1]].pos_y - a[3])) <= 1)

(***************************************************************************)
(* C10 - For a destination other than the piece's own square, move_to      *)
(* returns a board of the same size whose pieces are those of B without    *)
(* the mover and without the piece that stood on the destination, plus a   *)
(* piece of the mover's class and side on the destination; there is one    *)
(* piece fewer when the destination was occupied and as many otherwise.    *)
(***************************************************************************)
PieceSet(B) == {B.pieces[k] : k \in 1..Len(B.pieces)}

C10_MoveTo ==
    op = "move_to" =>
        \A a \in DOMAIN ret :
            ~At(a[1], a[2], a[3], board) =>
                LET P == board.pieces[a[1]]
                    placed == Piece(P.kind, P.side, a[2], a[3])
                    taken == {q \in PieceSet(board) : q.pos_x = a[2] /\ q.pos_y = a[3]}
                IN  /\ ~ret[a].raised
                    /\ ret[a].value.size = board.size
                    /\ PieceSet(ret[a].value) =
                          ((PieceSet(board) \ {P}) \ taken) \cup {placed}
                    /\ Len(ret[a].value.pieces) =
                          Len(board.pieces) - (IF taken = {} THEN 0 ELSE 1)
                    /\ Cardinality(PieceSet(ret[a].value)) = Len(ret[a].value.pieces)

\* move_to has returned a board for a move that takes a piece, and one for a
\* move of the same piece to a free square.
C10_Witness ==
    /\ op = "move_to"
    /\ \E a, b \in DOMAIN ret :
          /\ a[1] = b[1]
          /\ ~At(a[1], a[2], a[3], board)
          /\ is_piece_at(a[2], a[3], board)
          /\ ~ret[a].raised
          /\ Len(ret[a].value.pieces) = Len(board.pieces) - 1
          /\ ~is_piece_at(b[2], b[3], board)
          /\ ~ret[b].raised
          /\ Len(ret[b].value.pieces) = Len(board.pieces)

(***************************************************************************)
(* C3 - In the game loop a move entered for White is validated before it   *)
(* is applied: a step of White's turn replaces the board only by the       *)
(* result of move_to for a white piece and a destination that can_move_to  *)
(* accepts on the board held before the step.                              *)
(***************************************************************************)
ValidWhiteMove(B, after) ==
    \E p \in 1..Len(B.pieces) :
        /\ B.pieces[p].side
        /\ \E sq \in (1..B.size) \X (1..B.size) :
              /\ Yes(can_move_to(p, sq[1], sq[2], B))
              /\ ~move_to(p, sq[1], sq[2], B).raised
              /\ move_to(p, sq[1], sq[2], B).value = after

C3_WhiteMoveValidated ==
    [][(pc = "AwaitWhiteMove" /\ board' # board) => ValidWhiteMove(board, board')]_vars

(***************************************************************************)
(* C4 - In the game loop, whenever White's input is rejected (the loop     *)
(* prints that the move is not valid and prompts again), the board is the  *)
(* one held before that input and Black does not move.                     *)
(***************************************************************************)
C4_RejectedInputKeepsBoard ==
    [][(pc = "AwaitWhiteMove" /\ out' = "invalid")
            => (board' = board /\ pc' = "AwaitWhiteMove")]_vars

(***************************************************************************)
(* C11 - Whatever order the shuffle leaves, find_black_move(B) returns a   *)
(* triple (P, x, y) with P a black piece of B and P.can_move_to(x, y, B)   *)
(* true; it raises exactly when no black piece has a destination on the    *)
(* board that can_move_to accepts.                                         *)
(***************************************************************************)
C11_FindBlackMove ==
    op = "find_black_move" =>
        \A shuffled \in DOMAIN ret :
            /\ ret[shuffled].raised <=> ~HasLegalMove(Black, board)
            /\ ~ret[shuffled].raised =>
                  LET P == ret[shuffled].value[1]
                      x == ret[shuffled].value[2]
                      y == ret[shuffled].value[3]
                  IN  /\ P \in 1..Len(board.pieces)
                      /\ board.pieces[P].side = Black
                      /\ Yes(can_move_to(P, x, y, board))

\* find_black_move has returned moves of two different pieces for two orders
\* of the shuffle, and on the same board one black piece has no move at all.
C11_Witness ==
    /\ op = "find_black_move"
    /\ \E s, t \in DOMAIN ret :
          /\ ~ret[s].raised /\ ~ret[t].raised
          /\ ret[s].value[1] # ret[t].value[1]
    /\ \E p \in 1..Len(board.pieces) :
          /\ board.pieces[p].side = Black
          /\ \A sq \in Squares : ~Yes(can_move_to(p, sq[1], sq[2], board))

(***************************************************************************)
(* C12 - Transitions of the game loop on terminal states.  After a White   *)
(* move is applied the loop terminates exactly when Black is checkmated or *)
(* stalemated on the new board, and otherwise Black moves; after Black's   *)
(* move the loop terminates exactly when White is checkmated or            *)
(* stalemated, and otherwise prompts White, who then has a legal move.     *)
(***************************************************************************)
Ended(side, B) == Yes(is_checkmate(side, B)) \/ Yes(is_stalemate(side, B))

C12_TerminalTransitions ==
    [][ /\ (pc = "AwaitWhiteMove" /\ board' # board) =>
              IF Ended(Black, board')
              THEN pc' = "Terminated"
              ELSE pc' = "AwaitBlackMove"
        /\ pc = "AwaitBlackMove" =>
              IF Ended(White, board')
              THEN pc' = "Terminated"
              ELSE pc' = "AwaitWhiteMove" /\ HasLegalMove(White, board')
      ]_vars

(***************************************************************************)
(* C13 - From a start with one king a side, every board the game loop      *)
(* holds has exactly one king of each side.                                *)
(***************************************************************************)
KingsOf(side, B) ==
    {k \in 1..Len(B.pieces) : B.pieces[k].kind = "King" /\ B.pieces[k].side = side}

C13_OneKingPerSide ==
    \A side \in BOOLEAN : Cardinality(KingsOf(side, board)) = 1

(***************************************************************************)
(* C14 - From a start whose pieces all stand on squares of the board,      *)
(* every piece of every board the game loop holds has its file and its     *)
(* rank within 1..N.                                                       *)
(***************************************************************************)
C14_PiecesOnBoard ==
    \A k \in 1..Len(board.pieces) :
        OnBoard(board.pieces[k].pos_x, board.pieces[k].pos_y, board)

(***************************************************************************)
(* C15 - From a start in which no two pieces share a square, no board the  *)
(* game loop holds after any sequence of moves has two pieces on one       *)
(* square.                                                                 *)
(***************************************************************************)
C15_NoSharedSquare ==
    \A j, k \in 1..Len(board.pieces) :
        j # k => ~At(j, board.pieces[k].pos_x, board.pieces[k].pos_y, board)

\* The loop holds a board after a move of White on which a bishop is left
\* with one king only: the move has landed on an occupied square.
C15_Witness ==
    /\ out = "white_moved"
    /\ Len(board.pieces) = 2
    /\ \E k \in 1..Len(board.pieces) : board.pieces[k].kind = "Bishop"

(***************************************************************************)
(* C16 - On a board with no king of the side, is_check(side, B) raises     *)
(* ValueError; is_checkmate and is_stalemate for that side raise it too,   *)
(* and can_move_to of a piece of that side raises it whenever it gets as   *)
(* far as the check test (none of its earlier tests has answered false),   *)
(* and answers false otherwise: none of them answers true.                 *)
(***************************************************************************)
\* can_move_to of the piece gets to its call of is_check: the destination is
\* a square of the board other than its own that it can reach and that no
\* piece of its side holds.
ReachesCheckTest(p, X, Y, B) ==
    /\ OnBoard(X, Y, B)
    /\ ~At(p, X, Y, B)
    /\ can_reach(p, X, Y, B)
    /\ ~HoldsSide(B.pieces[p].side, X, Y, B)

C16_MissingKing ==
    /\ op \in {"is_check", "is_checkmate", "is_stalemate"} =>
          \A side \in BOOLEAN :
              ~HasKing(side, board) => ret[side] = Raise("ValueError")
    /\ op = "can_move_to" =>
          \A a \in DOMAIN ret :
              ~HasKing(board.pieces[a[1]].side, board) =>
                  IF ReachesCheckTest(a[1], a[2], a[3], board)
                  THEN ret[a] = Raise("ValueError")
                  ELSE No(ret[a])

\* can_move_to has raised for a bishop whose side has no king and a square
\* it can reach, and has answered false for the same bishop and a square it
\* cannot reach.
C16_Witness ==
    /\ op = "can_move_to"
    /\ \E a, b \in DOMAIN ret :
          /\ a[1] = b[1]
          /\ board.pieces[a[1]].kind = "Bishop"
          /\ ~HasKing(board.pieces[a[1]].side, board)
          /\ ret[a] = Raise("ValueError")
          /\ No(ret[b])

(***************************************************************************)
(* C17 - On the 5x5 board whose pieces are a white king on (2,2) and a     *)
(* black bishop on (4,4), is_check(White) answers true and is_check(Black) *)
(* raises ValueError, the board holding no black king.                     *)
(***************************************************************************)
IsCheckExample ==
    /\ op = "is_check"
    /\ board = Board(ExampleSize, <<King(2, 2, White), Bishop(4, 4, Black)>>)

C17_IsCheckExample ==
    IsCheckExample => (Yes(ret[White]) /\ ret[Black] = Raise("ValueError"))

\* The statement as the claim has it: is_check(Black) answers false there.
C17_AsStated ==
    IsCheckExample => (Yes(ret[White]) /\ No(ret[Black]))

\* is_check has been applied to that board, for both sides.
C17_Witness ==
    /\ IsCheckExample
    /\ DOMAIN ret = BOOLEAN
    /\ ret[White].value = TRUE

(***************************************************************************)
(* C18 - Serialization round trip.  For a board of size at most 26 with    *)
(* kings and bishops, read_board of the file save_board has written is a   *)
(* board of the same size with the same multiset of (kind, side, square)   *)
(* as the board saved, also when a side has no piece and its line is       *)
(* blank.                                                                  *)
(***************************************************************************)
Count(p, ps) == Cardinality({k \in 1..Len(ps) : ps[k] = p})

SameMultiset(ps, qs) ==
    /\ Len(ps) = Len(qs)
    /\ \A k \in 1..Len(ps) : Count(ps[k], ps) = Count(ps[k], qs)

C18_SaveReadRoundTrip ==
    op = "save_board" =>
        /\ ~ret.file.raised
        /\ ~ret.read.raised
        /\ ret.read.value.size = ret.B.size
        /\ SameMultiset(ret.B.pieces, ret.read.value.pieces)

\* A board with no white piece and two black pieces on one square, a king
\* listed after a bishop, has been saved with a blank second line and read
\* back.
C18_Witness ==
    /\ op = "save_board"
    /\ Len(ret.B.pieces) = 2
    /\ ~ret.B.pieces[1].side /\ ~ret.B.pieces[2].side
    /\ ret.B.pieces[1].kind = "Bishop" /\ ret.B.pieces[2].kind = "King"
    /\ ret.B.pieces[1].pos_x = ret.B.pieces[2].pos_x
    /\ ret.B.pieces[1].pos_y = ret.B.pieces[2].pos_y
    /\ ret.B.pieces[1].pos_y >= 10
    /\ \E k \in 1..(Len(ret.file.value) - 1) :
          ret.file.value[k] = 10 /\ ret.file.value[k + 1] = 10
    /\ ~ret.read.raised
    /\ ret.read.value = ret.B

(***************************************************************************)
(* C19 - Coordinate round trip.  For every file in 1..26 and rank in       *)
(* 1..99, location2index(index2location(file, rank)) is (file, rank), and  *)
(* location2index gives the same pair for the string with its file letter  *)
(* in upper case.                                                          *)
(***************************************************************************)
C19_CoordinateRoundTrip ==
    op = "index2location" =>
        /\ ~ret.loc.raised
        /\ ret.back = Return(<<ret.x, ret.y>>)
        /\ ret.upper = ret.back

\* A file other than the first and a rank of two digits have been encoded
\* as a letter and two digits, and decoded.
C19_Witness ==
    /\ op = "index2location"
    /\ ret.x > 1
    /\ ret.y >= 10
    /\ ~ret.loc.raised
    /\ Len(ret.loc.value) = 3
    /\ ~ret.back.raised

(***************************************************************************)
(* C20 - location2index raises, and returns no pair, for every string      *)
(* whose first character is not a letter and for every string whose        *)
(* remainder after the first character is not an unsigned decimal number.  *)
(***************************************************************************)
IsLetter(c) == (65 <= c /\ c <= 90) \/ (97 <= c /\ c <= 122)

IsUnsignedDecimal(s) == s # <<>> /\ \A k \in 1..Len(s) : IsDigit(s[k])

C20_MalformedLocation ==
    op = "location2index" =>
        /\ (ret.loc = <<>> \/ ~IsLetter(ret.loc[1])) => ret.result.raised
        /\ (ret.loc # <<>> /\ ~IsUnsignedDecimal(Tail(ret.loc))) => ret.result.raised

(***************************************************************************)
(* C21 - Board immutability.  move_to, can_move_to, is_check,              *)
(* is_checkmate, is_stalemate and find_black_move leave the board they are *)
(* given as it was: the same list of the same pieces in the same order,    *)
(* each with the same position and side.  So the board a caller has kept   *)
(* equals its earlier value after any of these calls, on that board or on  *)
(* a board made from it.                                                   *)
(***************************************************************************)
C21_BoardsUnchanged ==
    pc \in {"Held", "Moved"} =>
        /\ ret.heap.lists[1] = [k \in 1..Len(board.pieces) |-> k]
        /\ View(ret.heap, board.size, 1) = board
        /\ View(ret.heap, board.size, ret.cur) = ret.held

\* A function that simulates moves has been applied to a board that move_to
\* made by a capture, and that shares a piece with the board it was made
\* from.
C21_Witness ==
    /\ pc = "Moved"
    /\ op \in {"is_checkmate", "is_stalemate", "find_black_move"}
    /\ Len(ret.held.pieces) < Len(board.pieces)
    /\ \E j \in 1..Len(ret.heap.lists[1]), k \in 1..Len(ret.heap.lists[ret.cur]) :
          ret.heap.lists[1][j] = ret.heap.lists[ret.cur][k]
    /\ HasLegalMove(Black, ret.held)

(***************************************************************************)
(* C22 - For a given order of the black pieces, find_black_move returns    *)
(* the first piece of that order that has a destination can_move_to        *)
(* accepts, with the first such destination of that piece in the scan      *)
(* order of the squares (x outermost, y innermost, both ascending): two    *)
(* runs on a board differ only through the order of the pieces.            *)
(***************************************************************************)
Destinations(p, B) ==
    {sq \in (1..B.size) \X (1..B.size) : Yes(can_move_to(p, sq[1], sq[2], B))}

ScansBefore(a, b) == a[1] < b[1] \/ (a[1] = b[1] /\ a[2] <= b[2])

C22_FirstPieceFirstSquare ==
    op = "find_black_move" =>
        \A shuffled \in DOMAIN ret :
            ~ret[shuffled].raised =>
                \E k \in 1..Len(shuffled) :
                    /\ ret[shuffled].value[1] = shuffled[k]
                    /\ \A j \in 1..(k - 1) : Destinations(shuffled[j], board) = {}
                    /\ <<ret[shuffled].value[2], ret[shuffled].value[3]>>
                          \in Destinations(shuffled[k], board)
                    /\ \A d \in Destinations(shuffled[k], board) :
                          ScansBefore(<<ret[shuffled].value[2], ret[shuffled].value[3]>>, d)

\* find_black_move has passed over a piece without a move and returned the
\* next piece of the order, which has a destination with a smaller y that
\* comes later in the scan than the one returned.
C22_Witness ==
    /\ op = "find_black_move"
    /\ \E shuffled \in DOMAIN ret :
          /\ ~ret[shuffled].raised
          /\ Len(shuffled) >= 2
          /\ ret[shuffled].value[1] = shuffled[2]
          /\ \E d \in Destinations(shuffled[2], board) :
                /\ d[2] < ret[shuffled].value[3]
                /\ d[1] > ret[shuffled].value[2]

(***************************************************************************)
(* C23 - In the game loop find_black_move is applied only to boards on     *)
(* which Black has a move that can_move_to accepts, so it does not raise,  *)
(* whatever the shuffle.                                                   *)
(***************************************************************************)
C23_BlackHasMove ==
    pc = "AwaitBlackMove" =>
        /\ HasLegalMove(Black, board)
        /\ \A shuffled \in Shuffles(black_pieces_from(board, 1)) :
              ~find_black_move(board, shuffled).raised

\* Black is to move after a move of White that gives check, and has a piece
\* without any move.
C23_Witness ==
    /\ pc = "AwaitBlackMove"
    /\ out = "white_moved"
    /\ Yes(is_check(Black, board))
    /\ \E p \in 1..Len(board.pieces) :
          board.pieces[p].side = Black /\ Destinations(p, board) = {}

(***************************************************************************)
(* C24 - Turn alternation.  The changes of the board alternate between     *)
(* White's input and Black's move, White first: a step of White's turn     *)
(* that changes the board passes the turn to Black or ends the game, so    *)
(* that White does not change the board again before Black has moved, and  *)
(* a move of Black passes the turn to White or ends the run.               *)
(***************************************************************************)
C24_TurnAlternation ==
    [][ /\ (pc = "AwaitWhiteMove" /\ board' # board) => pc' # "AwaitWhiteMove"
        /\ (pc = "AwaitBlackMove" /\ board' # board) => pc' # "AwaitBlackMove"
      ]_vars

(***************************************************************************)
(* C25 - Legal play never takes a king.  From a board with one king a side *)
(* where the side not to move is not in check, after any sequence of       *)
(* alternating moves that can_move_to accepts for the side to move, the    *)
(* board has one king a side and the side that has just moved is not in    *)
(* check.                                                                  *)
(***************************************************************************)
C25_KingsSurviveLegalPlay ==
    pc \in {"WhiteToMove", "BlackToMove"} =>
        /\ \A side \in BOOLEAN : Cardinality(KingsOf(side, board)) = 1
        /\ NotInCheck(pc # "WhiteToMove", board)

\* White has just moved (its piece is the last of the list, which move_to
\* extends at its end, behind a black piece) and has given check with a
\* bishop; Black is to move and has a move.
C25_Witness ==
    /\ pc = "BlackToMove"
    /\ board.pieces[Len(board.pieces)].side
    /\ \E j \in 1..(Len(board.pieces) - 1) : ~board.pieces[j].side
    /\ Yes(is_check(Black, board))
    /\ legal_moves(Black, board) # {}

=============================================================================
